---- MODULE Spec2Model ----
(***************************************************************************)
(* The generate request pipeline of the MusicGen services:                 *)
(*   modal_service.generate, production_service.generate_music and         *)
(*   music_generation.generate_music.                                      *)
(* Every worker serves one request at a time; a request walks through the  *)
(* handler's statements (validate, load the model, set the parameters,     *)
(* generate, encode, upload, clean up, return).  Every call into a library *)
(* (pydantic, audiocraft, transformers, torchaudio, boto3) either returns  *)
(* or raises an exception with some message.                               *)
(***************************************************************************)
EXTENDS Integers, Sequences, FiniteSets, TLC

(* ---------------------------------------------------------------- bounds *)
\* requests served in one run of the model
MaxRequests == 2

(* ------------------------------------------------------ program constants *)
MinPromptLen == 1
MaxPromptLen == 500
MaxDuration == 30
\* upper limits of temperature and cfg_coef in modal_service, in tenths
MaxTemperature == 20
MaxCfg == 100
TokensPerSecond == 50

\* the three handlers
Entries == {"modal", "production", "music_generation"}

\* keys of model_map / model_name_map, and the alternatives of the pattern
ModelSizes == {"small", "medium", "large"}

\* an Optional[...] value is a sequence: <<>> is None, <<v>> is v
None == <<>>
Some(v) == <<v>>
IsNone(o) == Len(o) = 0

(* ----------------------------------------------------------------- inputs *)
\* prompts are modelled by their length, durations are whole seconds
PromptLens == {0, 1, 501}
Durations == {-1, 0, 30, 31}
SizeInputs == {"small", "large", "huge"}
FilenameInputs == {None, Some("a.wav")}
\* str(e) of an exception raised by a library call, as a sequence of words:
\* an exception built without arguments has the empty message
ExcMessages == {<<>>, <<"boom">>}
\* raw model output, one channel: a silent and a non-silent waveform
Waveforms == {<<0, 0>>, <<1, -2>>}
\* sample rate of a loaded model
SampleRates == {32000}

\* defaults of the request models; temperature and cfg in tenths
DefaultTemperature == 10
DefaultCfg == 30
DefaultTopK == 250
DefaultTopP == 0

MkRequest(e, p, d, s, f) ==
    [entry |-> e, prompt |-> p, duration |-> d, model_size |-> s,
     output_filename |-> f, temperature |-> DefaultTemperature,
     cfg |-> DefaultCfg, top_k |-> DefaultTopK, top_p |-> DefaultTopP]

\* the requests a client may send to an entry point; output_filename is a
\* field of the request model of music_generation only
Requests ==
    {MkRequest(e, p, d, s, None) :
        e \in Entries \ {"music_generation"}, p \in PromptLens,
        d \in Durations, s \in SizeInputs}
    \cup
    {MkRequest("music_generation", p, d, s, f) :
        p \in PromptLens, d \in Durations, s \in SizeInputs,
        f \in FilenameInputs}

\* valid requests for one model size, sent to workers that run side by side
ConcDurations == {10, 30}
ConcRequests ==
    {MkRequest(e, 1, d, "small", None) : e \in Entries, d \in ConcDurations}
    \cup {MkRequest("music_generation", 1, 30, "small", Some("a.wav"))}

\* sampling parameters a client may send: temperature, cfg and top_p in
\* tenths, top_k a whole number
Temperatures == {0, 10}
Cfgs == {0, 30, 50}
TopKs == {-1, 250}
TopPs == {0, 11}
WithParams(r, t, c, k, p) ==
    [r EXCEPT !.temperature = t, !.cfg = c, !.top_k = k, !.top_p = p]
\* requests that differ in their sampling parameters only
ParamRequests ==
    {WithParams(MkRequest(e, 1, 30, "small", None), t, c, k, p) :
        e \in Entries, t \in Temperatures, c \in Cfgs, k \in TopKs,
        p \in TopPs}
    \cup {MkRequest("music_generation", 1, 30, "small", Some("a.wav"))}

(* ------------------------------------------------------------- validation *)
ValidPrompt(p) == p >= MinPromptLen /\ p <= MaxPromptLen
ValidDuration(d) == d > 0 /\ d <= MaxDuration
\* a check of the model size that lets every string through
AnyModelSize(s) == TRUE
ValidModelSize(s) == s \in ModelSizes
ValidTemperature(t) == t > 0 /\ t <= MaxTemperature
ValidCfg(c) == c > 0 /\ c <= MaxCfg

\* the fields pydantic reports for a request, per handler.  The request
\* model of music_generation declares types only, so no value is refused.
InvalidFields(r) ==
    IF r.entry = "music_generation" THEN {}
    ELSE (IF ValidPrompt(r.prompt) THEN {} ELSE {"prompt"})
         \cup (IF ValidDuration(r.duration) THEN {} ELSE {"duration"})
         \cup (IF ValidModelSize(r.model_size) THEN {} ELSE {"model_size"})
         \cup (IF r.entry = "modal" /\ ~ValidTemperature(r.temperature)
               THEN {"temperature"} ELSE {})
         \cup (IF r.entry = "modal" /\ ~ValidCfg(r.cfg)
               THEN {"cfg_coef"} ELSE {})

\* str(ValidationError): a header and one entry per refused field
SetToSeq(S) ==
    CHOOSE q \in [1..Cardinality(S) -> S] : \A x \in S : \E i \in DOMAIN q : q[i] = x
ValidationMessage(r) == <<"validation error">> \o SetToSeq(InvalidFields(r))

\* model_map / model_name_map
ModelMap(s) ==
    CASE s = "small" -> "facebook/musicgen-small"
      [] s = "medium" -> "facebook/musicgen-medium"
      [] s = "large" -> "facebook/musicgen-large"
ModelNames == {ModelMap(s) : s \in ModelSizes}

\* the lookup of the model name: .get(size, default) in modal_service and
\* music_generation, [size] in production_service (KeyError: None)
ModelName(e, s) ==
    IF s \in ModelSizes THEN Some(ModelMap(s))
    ELSE IF e = "modal" THEN Some(ModelMap("small"))
    ELSE IF e = "music_generation" THEN Some(ModelMap("medium"))
    ELSE None

\* guidance_scale of production_service, in tenths
GuidanceScale == 30

\* peak normalisation; a sample is the fraction <<numerator, denominator>>
Abs(x) == IF x < 0 THEN -x ELSE x
Peak(wv) == CHOOSE m \in {Abs(wv[i]) : i \in DOMAIN wv} :
                \A i \in DOMAIN wv : Abs(wv[i]) <= m
Normalize(wv) ==
    IF Peak(wv) > 0 THEN [i \in DOMAIN wv |-> <<wv[i], Peak(wv)>>]
    ELSE [i \in DOMAIN wv |-> <<wv[i], 1>>]
Unscaled(wv) == [i \in DOMAIN wv |-> <<wv[i], 1>>]

(* ----------------------------------------------------------- tensor shapes *)
\* a shape is the sequence of a tensor's dimension sizes
MaxSamples == 21
Channels == {1, 2}
SampleCounts == 2..MaxSamples
\* the generate call returns (batch = 1, channels, samples)
RawShapes == {<<1, c, n>> : c \in Channels, n \in SampleCounts}

\* x[0]
Index0(sh) == Tail(sh)
\* x.squeeze(): every dimension of size one is dropped
Squeeze(sh) == SelectSeq(sh, LAMBDA d : d # 1)
\* x.unsqueeze(0)
Unsqueeze0(sh) == <<1>> \o sh

\* the shape of the tensor each entry point passes to torchaudio.save
SaveArg(e, raw) ==
    CASE e = "modal" -> Unsqueeze0(Squeeze(Index0(raw)))
      [] e = "production" -> Unsqueeze0(Index0(raw))
      [] e = "music_generation" -> Index0(raw)

(* ------------------------------------------------------------------ state *)
\* concurrent workers (containers or threads), each serving one request at a time
NumWorkers == 2
Workers == 1..NumWorkers

VARIABLES
    pc,         \* per worker: the statement its handler is at
    req,        \* per worker: the request being served
    reqNo,      \* per worker: serial number of that request
    exc,        \* per worker: str(e) of the exception being handled
    model,      \* per worker: local "model", the id of the loaded handle (0: none)
    wav,        \* per worker: local "wav", Some(waveform) once generated
    audio,      \* per worker: encoded audio (buffer or temporary file content)
    temp_path,  \* per worker: local "temp_path", 0 before the file is created
    audio_url,  \* per worker: local "audio_url"
    resp,       \* per worker: the response returned (when pc = "done")
    handles,    \* live model handles: id -> [name, sample_rate, params]
    files,      \* temporary files that exist on the local disk
    bucket,     \* keys stored in the object storage
    served,     \* number of requests accepted so far
    loads,      \* per worker: get_pretrained calls made for the current request
    loadCount,  \* per model name: get_pretrained calls made so far
    lastLoad,   \* per model name: how the last finished load ended
    usedParams, \* per worker: parameters the handle had when generate ran
    warned,     \* per worker: the upload failure was printed
    trace,      \* per worker: stages of the current request, <<stage, result>>
    tensor      \* <<entry, shape of the raw output, shape handed to the encoder>>

vars == <<tensor, pc, req, reqNo, exc, model, wav, audio, temp_path, audio_url, resp,
          handles, files, bucket, served, loads, loadCount,
          lastLoad, usedParams, warned, trace>>

NoResponse == [x \in {} |-> TRUE]
NoRequest == MkRequest("modal", 1, 1, "small", None)

Init ==
    /\ pc = [w \in Workers |-> "idle"]
    /\ req = [w \in Workers |-> NoRequest]
    /\ reqNo = [w \in Workers |-> 0]
    /\ exc = [w \in Workers |-> <<>>]
    /\ model = [w \in Workers |-> 0]
    /\ wav = [w \in Workers |-> None]
    /\ audio = [w \in Workers |-> None]
    /\ temp_path = [w \in Workers |-> 0]
    /\ audio_url = [w \in Workers |-> None]
    /\ resp = [w \in Workers |-> NoResponse]
    /\ handles = [h \in {} |-> TRUE]
    /\ files = {}
    /\ bucket = {}
    /\ served = 0
    /\ loads = [w \in Workers |-> 0]
    /\ loadCount = [n \in ModelNames |-> 0]
    /\ lastLoad = [n \in ModelNames |-> "none"]
    /\ usedParams = [w \in Workers |-> None]
    /\ warned = [w \in Workers |-> FALSE]
    /\ trace = [w \in Workers |-> <<>>]
    /\ tensor = <<>>

(* ---------------------------------------------------------------- helpers *)
\* parameters of a handle nobody has configured: the library's defaults
DefaultParams ==
    [duration |-> None, top_k |-> None, top_p |-> None,
     temperature |-> None, cfg |-> None]

\* the handle table without handle h (the local "model" goes out of scope)
Drop(hs, h) == [k \in DOMAIN hs \ {h} |-> hs[k]]

\* a handler that validates the request before it enters its try block
InTryAfterValidation(e, stage) == stage # "Validate"

\* the statements of a stage lie inside the handler's try block
InTry(e, stage) == TRUE

\* a statement of worker w raised: control moves to the except clause, or
\* the exception leaves the handler
Raise(w, msg, stage) ==
    /\ pc' = [pc EXCEPT ![w] =
                 IF InTry(req[w].entry, stage) THEN "except" ELSE "raised"]
    /\ exc' = [exc EXCEPT ![w] = msg]
    /\ trace' = [trace EXCEPT ![w] = Append(@, <<stage, "fail">>)]

\* a stage of worker w completed and control moves on to statement next
Advance(w, next, stage) ==
    /\ pc' = [pc EXCEPT ![w] = next]
    /\ exc' = exc
    /\ trace' = [trace EXCEPT ![w] = Append(@, <<stage, "ok">>)]

\* control moves on within a stage
Goto(w, next) ==
    /\ pc' = [pc EXCEPT ![w] = next]
    /\ UNCHANGED <<exc, trace>>

(* ---------------------------------------------------------------- actions *)
\* the runtime hands a request to a free worker
Invoke(w, R) ==
    /\ pc[w] \in {"idle", "done", "raised", "killed", "listed"}
    /\ tensor' = tensor
    /\ served < MaxRequests
    /\ \E r \in R : req' = [req EXCEPT ![w] = r]
    /\ served' = served + 1
    /\ reqNo' = [reqNo EXCEPT ![w] = served + 1]
    /\ pc' = [pc EXCEPT ![w] = "validate"]
    /\ exc' = [exc EXCEPT ![w] = <<>>]
    /\ model' = [model EXCEPT ![w] = 0]
    /\ wav' = [wav EXCEPT ![w] = None]
    /\ audio' = [audio EXCEPT ![w] = None]
    /\ temp_path' = [temp_path EXCEPT ![w] = 0]
    /\ audio_url' = [audio_url EXCEPT ![w] = None]
    /\ resp' = [resp EXCEPT ![w] = NoResponse]
    /\ loads' = [loads EXCEPT ![w] = 0]
    /\ usedParams' = [usedParams EXCEPT ![w] = None]
    /\ warned' = [warned EXCEPT ![w] = FALSE]
    /\ trace' = [trace EXCEPT ![w] = <<>>]
    /\ UNCHANGED <<handles, files, bucket, loadCount, lastLoad>>

\* a validation whose failure is recorded but does not stop the request
ValidateLogOnly(w) ==
    /\ pc[w] = "validate"
    /\ tensor' = tensor
    /\ pc' = [pc EXCEPT ![w] = "resolve"]
    /\ trace' = [trace EXCEPT ![w] = Append(@,
           <<"Validate", IF InvalidFields(req[w]) = {} THEN "ok" ELSE "fail">>)]
    /\ UNCHANGED <<req, reqNo, exc, model, wav, audio, temp_path, audio_url,
                   resp, handles, files, bucket, served, loads, loadCount,
                   lastLoad, usedParams, warned>>

\* req = GenerateRequest(**request_data) inside the try of modal_service and
\* production_service; the typed parameter of music_generation.generate_music
Validate(w) ==
    /\ pc[w] = "validate"
    /\ tensor' = tensor
    /\ IF InvalidFields(req[w]) = {}
       THEN Advance(w, "resolve", "Validate")
       ELSE Raise(w, ValidationMessage(req[w]), "Validate")
    /\ UNCHANGED <<req, reqNo, model, wav, audio, temp_path, audio_url, resp,
                   handles, files, bucket, served, loads,
                   loadCount, lastLoad, usedParams, warned>>

\* a resolve that remembers a failed load and hands the failure out again
ResolvePoisoned(w) ==
    /\ pc[w] = "resolve"
    /\ tensor' = tensor
    /\ LET n == ModelName(req[w].entry, req[w].model_size) IN
       IF IsNone(n) \/ lastLoad[n[1]] = "failed"
       THEN /\ Raise(w, <<"cached failure">>, "Resolve")
            /\ UNCHANGED <<loads, loadCount>>
       ELSE /\ Goto(w, "loading")
            /\ loads' = [loads EXCEPT ![w] = @ + 1]
            /\ loadCount' = [loadCount EXCEPT ![n[1]] = @ + 1]
    /\ UNCHANGED <<req, reqNo, model, wav, audio, temp_path, audio_url, resp,
                   handles, files, bucket, served, lastLoad, usedParams,
                   warned>>

\* the lookup of the model name and the call of get_pretrained / from_pretrained
Resolve(w) ==
    /\ pc[w] = "resolve"
    /\ tensor' = tensor
    /\ LET n == ModelName(req[w].entry, req[w].model_size) IN
       IF IsNone(n)
       THEN /\ Raise(w, <<"KeyError">>, "Resolve")
            /\ UNCHANGED <<loads, loadCount>>
       ELSE /\ Goto(w, "loading")
            /\ loads' = [loads EXCEPT ![w] = @ + 1]
            /\ loadCount' = [loadCount EXCEPT ![n[1]] = @ + 1]
    /\ UNCHANGED <<req, reqNo, model, wav, audio, temp_path, audio_url, resp,
                   handles, files, bucket, served, lastLoad,
                   usedParams, warned>>

\* get_pretrained / from_pretrained returns a new handle, or raises
LoadEnd(w) ==
    /\ pc[w] = "loading"
    /\ tensor' = tensor
    /\ LET n == ModelName(req[w].entry, req[w].model_size)[1] IN
       \/ /\ \E sr \in SampleRates :
               handles' = [k \in DOMAIN handles \cup {reqNo[w]} |->
                             IF k = reqNo[w]
                             THEN [name |-> n, sample_rate |-> sr,
                                   params |-> DefaultParams]
                             ELSE handles[k]]
          /\ model' = [model EXCEPT ![w] = reqNo[w]]
          /\ lastLoad' = [lastLoad EXCEPT ![n] = "ok"]
          /\ Advance(w, "configure", "Resolve")
       \/ /\ \E m \in ExcMessages : Raise(w, m, "Resolve")
          /\ lastLoad' = [lastLoad EXCEPT ![n] = "failed"]
          /\ UNCHANGED <<handles, model>>
    /\ UNCHANGED <<req, reqNo, wav, audio, temp_path, audio_url, resp, files,
                   bucket, served, loads, loadCount, usedParams, warned>>

\* the parameters a handler passes to set_generation_params; an argument it
\* does not pass is left to the library's default (None)
RequestParams(r) ==
    IF r.entry = "modal"
    THEN [duration |-> Some(r.duration), top_k |-> None, top_p |-> None,
          temperature |-> Some(r.temperature), cfg |-> Some(r.cfg)]
    ELSE [duration |-> Some(r.duration), top_k |-> Some(r.top_k),
          top_p |-> Some(r.top_p), temperature |-> Some(r.temperature),
          cfg |-> Some(r.cfg)]

\* the keyword arguments of model.generate in production_service
GenerateKwargs(r) ==
    [max_new_tokens |-> r.duration * TokensPerSecond, do_sample |-> TRUE,
     guidance_scale |-> GuidanceScale]

\* a configure step that writes the parameters into state shared by every
\* loaded handle of the same model
ConfigureShared(w) ==
    /\ pc[w] = "configure"
    /\ tensor' = tensor
    /\ \/ /\ handles' =
               IF req[w].entry = "production" THEN handles
               ELSE [k \in DOMAIN handles |->
                       IF handles[k].name = handles[model[w]].name
                       THEN [handles[k] EXCEPT !.params = RequestParams(req[w])]
                       ELSE handles[k]]
          /\ Goto(w, "generate")
       \/ /\ \E m \in ExcMessages : Raise(w, m, "Generate")
          /\ UNCHANGED handles
    /\ UNCHANGED <<req, reqNo, model, wav, audio, temp_path, audio_url, resp,
                   files, bucket, served, loads, loadCount,
                   lastLoad, usedParams, warned>>

\* model.set_generation_params(...) in modal_service and music_generation;
\* processor(text=[prompt], ...) in production_service
Configure(w) ==
    /\ pc[w] = "configure"
    /\ tensor' = tensor
    /\ \/ /\ handles' =
               IF req[w].entry = "production" THEN handles
               ELSE [handles EXCEPT ![model[w]].params = RequestParams(req[w])]
          /\ Goto(w, "generate")
       \/ /\ \E m \in ExcMessages : Raise(w, m, "Generate")
          /\ UNCHANGED handles
    /\ UNCHANGED <<req, reqNo, model, wav, audio, temp_path, audio_url, resp,
                   files, bucket, served, loads, loadCount,
                   lastLoad, usedParams, warned>>

\* wav = model.generate(...): runs with the parameters the handle holds
Generate(w) ==
    /\ pc[w] = "generate"
    /\ tensor' = tensor
    /\ usedParams' = [usedParams EXCEPT ![w] =
           IF req[w].entry = "production" THEN Some(GenerateKwargs(req[w]))
           ELSE Some(handles[model[w]].params)]
    /\ \/ /\ \E wv \in Waveforms : wav' = [wav EXCEPT ![w] = Some(wv)]
          /\ Advance(w, "encode", "Generate")
       \/ /\ \E m \in ExcMessages : Raise(w, m, "Generate")
          /\ UNCHANGED wav
    /\ UNCHANGED <<req, reqNo, model, audio, temp_path, audio_url, resp,
                   handles, files, bucket, served, loads,
                   loadCount, lastLoad, warned>>

\* @app.function(..., timeout=600): the runtime ends a handler that is still
\* generating at the limit.  The handler has no code for it, so what the
\* caller gets is the runtime's: the task is terminated without a response,
\* or the interruption surfaces inside the try as an exception.
Timeout(w) ==
    /\ pc[w] = "generate"
    /\ tensor' = tensor
    /\ trace' = [trace EXCEPT ![w] = Append(@, <<"Generate", "timeout">>)]
    /\ \/ /\ pc' = [pc EXCEPT ![w] = "killed"]
          /\ handles' = Drop(handles, model[w])
          /\ exc' = exc
       \/ /\ pc' = [pc EXCEPT ![w] = "except"]
          /\ exc' = [exc EXCEPT ![w] = <<"timeout">>]
          /\ handles' = handles
    /\ UNCHANGED <<req, reqNo, model, wav, audio, temp_path, audio_url, resp,
                   files, bucket, served, loads, loadCount, lastLoad,
                   usedParams, warned>>

\* "if filename:" of music_generation
Truthy(f) == ~IsNone(f) /\ f[1] # ""

\* what torchaudio.save writes
Wav(samples, sr) == [format |-> "wav", sample_rate |-> sr, samples |-> samples]

\* normalisation and torchaudio.save into a buffer (modal_service,
\* production_service); NamedTemporaryFile(delete=False) and torchaudio.save
\* into the temporary file (music_generation)
Encode(w) ==
    /\ pc[w] = "encode"
    /\ tensor' = tensor
    /\ LET sr == handles[model[w]].sample_rate
           wv == wav[w][1]
       IN
       IF req[w].entry = "music_generation"
       THEN \/ \* the temporary file cannot be created
               /\ \E m \in ExcMessages : Raise(w, m, "Encode")
               /\ UNCHANGED <<audio, temp_path, files>>
            \/ \* the file exists, torchaudio.save raises
               /\ temp_path' = [temp_path EXCEPT ![w] = reqNo[w]]
               /\ files' = files \cup {reqNo[w]}
               /\ \E m \in ExcMessages : Raise(w, m, "Encode")
               /\ UNCHANGED audio
            \/ /\ temp_path' = [temp_path EXCEPT ![w] = reqNo[w]]
               /\ files' = files \cup {reqNo[w]}
               /\ audio' = [audio EXCEPT ![w] = Some(Wav(Unscaled(wv), sr))]
               /\ Advance(w, IF Truthy(req[w].output_filename)
                             THEN "publish" ELSE "cleanup", "Encode")
       ELSE \/ /\ \E m \in ExcMessages : Raise(w, m, "Encode")
               /\ UNCHANGED <<audio, temp_path, files>>
            \/ /\ audio' = [audio EXCEPT ![w] = Some(Wav(Normalize(wv), sr))]
               /\ Advance(w, "return", "Encode")
               /\ UNCHANGED <<temp_path, files>>
    /\ UNCHANGED <<req, reqNo, model, wav, audio_url, resp, handles,
                   bucket, served, loads, loadCount, lastLoad,
                   usedParams, warned>>

\* the public URL of an uploaded key
Url(key) == [bucket |-> "R2_BUCKET_NAME", key |-> key]

\* an upload step that builds the URL before it knows the upload succeeded
PublishUrlAlways(w) ==
    /\ pc[w] = "publish"
    /\ tensor' = tensor
    /\ \/ /\ bucket' = bucket \cup {req[w].output_filename[1]}
          /\ audio_url' = [audio_url EXCEPT ![w] =
                              Some(Url(req[w].output_filename[1]))]
          /\ trace' = [trace EXCEPT ![w] = Append(@, <<"Publish", "ok">>)]
          /\ UNCHANGED warned
       \/ /\ warned' = [warned EXCEPT ![w] = TRUE]
          /\ trace' = [trace EXCEPT ![w] = Append(@, <<"Publish", "fail">>)]
          /\ audio_url' = [audio_url EXCEPT ![w] =
                              Some(Url(req[w].output_filename[1]))]
          /\ UNCHANGED bucket
    /\ pc' = [pc EXCEPT ![w] = "cleanup"]
    /\ UNCHANGED <<req, reqNo, exc, model, wav, audio, temp_path, resp,
                   handles, files, served, loads, loadCount,
                   lastLoad, usedParams>>

\* the upload to R2 in its own try: a failure is printed and passed over
Publish(w) ==
    /\ pc[w] = "publish"
    /\ tensor' = tensor
    /\ \/ /\ bucket' = bucket \cup {req[w].output_filename[1]}
          /\ audio_url' = [audio_url EXCEPT ![w] =
                              Some(Url(req[w].output_filename[1]))]
          /\ trace' = [trace EXCEPT ![w] = Append(@, <<"Publish", "ok">>)]
          /\ UNCHANGED warned
       \/ /\ warned' = [warned EXCEPT ![w] = TRUE]
          /\ trace' = [trace EXCEPT ![w] = Append(@, <<"Publish", "fail">>)]
          /\ UNCHANGED <<bucket, audio_url>>
    /\ pc' = [pc EXCEPT ![w] = "cleanup"]
    /\ UNCHANGED <<req, reqNo, exc, model, wav, audio, temp_path, resp,
                   handles, files, served, loads, loadCount,
                   lastLoad, usedParams>>

\* a clean-up that empties the temporary directory instead of unlinking the
\* request's own file
CleanupTempDir(w) ==
    /\ pc[w] = "cleanup"
    /\ tensor' = tensor
    /\ files' = {}
    /\ Goto(w, "return")
    /\ UNCHANGED <<req, reqNo, model, wav, audio, temp_path, audio_url, resp,
                   handles, bucket, served, loads, loadCount,
                   lastLoad, usedParams, warned>>

\* if os.path.exists(temp_path): os.unlink(temp_path)
Cleanup(w) ==
    /\ pc[w] = "cleanup"
    /\ tensor' = tensor
    /\ files' = files \ {temp_path[w]}
    /\ Goto(w, "return")
    /\ UNCHANGED <<req, reqNo, model, wav, audio, temp_path, audio_url, resp,
                   handles, bucket, served, loads, loadCount,
                   lastLoad, usedParams, warned>>

\* the response of the success path
SuccessResponse(r, a, url) ==
    CASE r.entry = "modal" ->
            [success |-> TRUE, audio_data |-> a[1], format |-> "wav",
             duration |-> r.duration, prompt |-> r.prompt,
             model |-> r.model_size]
      [] r.entry = "production" ->
            [success |-> TRUE, audio_data |-> a[1], format |-> "wav",
             duration |-> r.duration, sample_rate |-> a[1].sample_rate,
             prompt |-> r.prompt, model |-> r.model_size]
      [] r.entry = "music_generation" ->
            [success |-> TRUE, audio_url |-> url,
             filename |-> r.output_filename, duration |-> Some(r.duration),
             prompt |-> r.prompt, error |-> None]

\* the response of the except clause
ErrorResponse(r, msg) ==
    IF r.entry = "music_generation"
    THEN [success |-> FALSE, audio_url |-> None, filename |-> None,
          duration |-> None, prompt |-> r.prompt, error |-> Some(msg)]
    ELSE [success |-> FALSE, error |-> msg]

\* return {...} / return MusicGenerationResponse(...).model_dump()
Return(w) ==
    /\ pc[w] = "return"
    /\ tensor' = tensor
    /\ resp' = [resp EXCEPT ![w] =
                   SuccessResponse(req[w], audio[w], audio_url[w])]
    /\ handles' = Drop(handles, model[w])
    /\ Advance(w, "done", "Assemble")
    /\ UNCHANGED <<req, reqNo, model, wav, audio, temp_path, audio_url,
                   files, bucket, served, loads, loadCount,
                   lastLoad, usedParams, warned>>

\* an except clause that logs the error and raises it again
ExceptReraise(w) ==
    /\ pc[w] = "except"
    /\ tensor' = tensor
    /\ handles' = Drop(handles, model[w])
    /\ Goto(w, "raised")
    /\ UNCHANGED <<req, reqNo, model, wav, audio, temp_path, audio_url, resp,
                   files, bucket, served, loads, loadCount,
                   lastLoad, usedParams, warned>>

\* except Exception as e: return the failure response
Except(w) ==
    /\ pc[w] = "except"
    /\ tensor' = tensor
    /\ resp' = [resp EXCEPT ![w] = ErrorResponse(req[w], exc[w])]
    /\ handles' = Drop(handles, model[w])
    /\ Goto(w, "done")
    /\ UNCHANGED <<req, reqNo, model, wav, audio, temp_path, audio_url,
                   files, bucket, served, loads, loadCount,
                   lastLoad, usedParams, warned>>

Step(w) ==
    \/ Validate(w)
    \/ Resolve(w)
    \/ LoadEnd(w)
    \/ Configure(w)
    \/ Generate(w)
    \/ Encode(w)
    \/ Publish(w)
    \/ Cleanup(w)
    \/ Return(w)
    \/ Except(w)

\* one long-lived worker serving any requests one after another
FirstWorker == CHOOSE w \in Workers : \A v \in Workers : w <= v
Next == Invoke(FirstWorker, Requests) \/ Step(FirstWorker)
Spec == Init /\ [][Next]_vars

\* the same worker when every call it makes returns or raises in the end, so
\* that a handler that can take a step does take one
SpecLive == Init /\ [][Next]_vars /\ WF_vars(Step(FirstWorker))

\* one worker serving requests that differ in their sampling parameters
NextParams == Invoke(FirstWorker, ParamRequests) \/ Step(FirstWorker)
SpecParams == Init /\ [][NextParams]_vars

\* one worker whose generation may run into the function's time limit
NextTimeout == Next \/ Timeout(FirstWorker)
SpecTimeout == Init /\ [][NextTimeout]_vars

\* the static list each service returns from its models endpoint
Listing(e) ==
    CASE e = "modal" ->
           <<[id |-> "small", name |-> "MusicGen Small",
              description |-> "Fastest generation, good quality"],
             [id |-> "medium", name |-> "MusicGen Medium",
              description |-> "Balanced speed and quality"],
             [id |-> "large", name |-> "MusicGen Large",
              description |-> "Best quality, slower generation"]>>
      [] e = "production" ->
           <<[id |-> "small", name |-> "MusicGen Small",
              hf_model |-> "facebook/musicgen-small",
              description |-> "Fastest generation, good quality"],
             [id |-> "medium", name |-> "MusicGen Medium",
              hf_model |-> "facebook/musicgen-medium",
              description |-> "Balanced speed and quality"],
             [id |-> "large", name |-> "MusicGen Large",
              hf_model |-> "facebook/musicgen-large",
              description |-> "Best quality, slower generation"]>>
      [] e = "music_generation" ->
           <<[name |-> "small", parameters |-> "300M",
              description |-> "MusicGen Small - Fast generation, good quality"],
             [name |-> "medium", parameters |-> "1.5B",
              description |-> "MusicGen Medium - Balance of speed and quality"],
             [name |-> "large", parameters |-> "3.3B",
              description |-> "MusicGen Large - Best quality, slower generation"]>>

\* list_models(): a GET without a body, answered with the static list of
\* the service it belongs to
ListModels(w) ==
    /\ pc[w] \in {"idle", "done", "raised", "killed", "listed"}
    /\ served < MaxRequests
    /\ \E e \in Entries :
          /\ req' = [req EXCEPT ![w] = [NoRequest EXCEPT !.entry = e]]
          /\ resp' = [resp EXCEPT ![w] = [models |-> Listing(e)]]
    /\ served' = served + 1
    /\ reqNo' = [reqNo EXCEPT ![w] = served + 1]
    /\ pc' = [pc EXCEPT ![w] = "listed"]
    /\ exc' = [exc EXCEPT ![w] = <<>>]
    /\ model' = [model EXCEPT ![w] = 0]
    /\ wav' = [wav EXCEPT ![w] = None]
    /\ audio' = [audio EXCEPT ![w] = None]
    /\ temp_path' = [temp_path EXCEPT ![w] = 0]
    /\ audio_url' = [audio_url EXCEPT ![w] = None]
    /\ loads' = [loads EXCEPT ![w] = 0]
    /\ usedParams' = [usedParams EXCEPT ![w] = None]
    /\ warned' = [warned EXCEPT ![w] = FALSE]
    /\ trace' = [trace EXCEPT ![w] = <<>>]
    /\ UNCHANGED <<handles, files, bucket, loadCount, lastLoad, tensor>>

\* one worker serving generate requests and models requests of the services
NextModels == Next \/ ListModels(FirstWorker)
SpecModels == Init /\ [][NextModels]_vars

\* the conversion of a raw output to the encoder's argument, on its own
ToEncoder ==
    /\ \E e \in Entries, raw \in RawShapes :
          tensor' = <<e, raw, SaveArg(e, raw)>>
    /\ UNCHANGED <<pc, req, reqNo, exc, model, wav, audio, temp_path,
                   audio_url, resp, handles, files, bucket, served, loads,
                   loadCount, lastLoad, usedParams, warned, trace>>
NextTensor == ToEncoder
SpecTensor == Init /\ [][NextTensor]_vars

\* workers serving requests for the same model size side by side
NextConc == \E w \in Workers : Invoke(w, ConcRequests) \/ Step(w)
SpecConc == Init /\ [][NextConc]_vars

(* ----------------------------------------------------------------- claims *)
Done(w) == pc[w] = "done"
Started(w) == pc[w] # "idle"
\* the request of worker w went through a stage with the result given
Had(w, stage, result) == \E i \in DOMAIN trace[w] : trace[w][i] = <<stage, result>>
\* str(e) as carried by the failure response of worker w
ErrorText(w) ==
    IF req[w].entry = "music_generation" THEN resp[w].error[1] ELSE resp[w].error
\* the response of worker w carries audio data
HasAudio(w) == "audio_data" \in DOMAIN resp[w]
\* the response of worker w carries a persisted reference
HasReference(w) == "audio_url" \in DOMAIN resp[w] /\ ~IsNone(resp[w].audio_url)

\* C1: a request whose duration is outside (0, 30] is rejected with a failure
\* outcome and no model load is performed for it, in every entry point.
C1_BadDurationRejectedBeforeLoad ==
    \A w \in Workers :
        (Started(w) /\ ~ValidDuration(req[w].duration)) =>
            /\ loads[w] = 0
            /\ model[w] = 0
            /\ Done(w) => resp[w].success = FALSE

\* C2: a request whose model variant is not small, medium or large is
\* rejected with a validation failure; no default variant replaces it and no
\* model is loaded for it.
C2_UnknownVariantRejected ==
    \A w \in Workers :
        (Started(w) /\ req[w].model_size \notin ModelSizes) =>
            /\ loads[w] = 0
            /\ model[w] = 0
            /\ ~Had(w, "Validate", "ok")
            /\ Done(w) => resp[w].success = FALSE

C4_UploadFailureKeepsAudio ==
    \A w \in Workers :
        (Done(w) /\ Had(w, "Publish", "fail")) =>
            /\ resp[w].success = TRUE
            /\ warned[w]
            /\ ~HasReference(w)
            /\ HasAudio(w)

\* C5: a request whose validation, model load or generation failed ends in
\* success = false with a non-empty error message, no audio data and no
\* persisted reference.
C5_FailureOutcome ==
    \A w \in Workers :
        (Done(w) /\ \E st \in {"Validate", "Resolve", "Generate"} :
                        Had(w, st, "fail")) =>
            /\ resp[w].success = FALSE
            /\ Len(ErrorText(w)) > 0
            /\ ~HasAudio(w)
            /\ ~HasReference(w)

\* the stages in their order, and the stage a statement belongs to
StageOrder == <<"Validate", "Resolve", "Generate", "Encode", "Publish", "Assemble">>
Rank(stage) == CHOOSE i \in DOMAIN StageOrder : StageOrder[i] = stage
StageOf(p) ==
    CASE p = "validate" -> "Validate"
      [] p \in {"resolve", "loading"} -> "Resolve"
      [] p \in {"configure", "generate"} -> "Generate"
      [] p = "encode" -> "Encode"
      [] p = "publish" -> "Publish"
      [] p \in {"cleanup", "return"} -> "Assemble"
Running(w) == pc[w] \notin {"idle", "done", "except", "raised"}
\* every stage before rank k, Publish aside, has completed successfully
PredecessorsOk(w, k) ==
    \A j \in 1..(k - 1) :
        StageOrder[j] # "Publish" => Had(w, StageOrder[j], "ok")

\* C6: within a request the stages run in the order Validate, Resolve,
\* Generate, Encode, Publish, Assemble; a stage starts only after its
\* predecessors completed successfully, and a failed Publish neither undoes
\* the earlier stages nor skips the assembly.
C6_StagesInOrder ==
    \A w \in Workers :
        /\ \A i, j \in DOMAIN trace[w] :
              i < j => /\ Rank(trace[w][i][1]) < Rank(trace[w][j][1])
                       /\ trace[w][i][2] = "ok" \/ trace[w][i][1] = "Publish"
        /\ \A i \in DOMAIN trace[w] : PredecessorsOk(w, Rank(trace[w][i][1]))
        /\ Running(w) =>
              /\ PredecessorsOk(w, Rank(StageOf(pc[w])))
              /\ \A i \in DOMAIN trace[w] :
                    /\ Rank(trace[w][i][1]) < Rank(StageOf(pc[w]))
                    /\ trace[w][i][2] = "ok" \/ trace[w][i][1] = "Publish"
        /\ Had(w, "Publish", "fail") =>
              pc[w] \in {"cleanup", "return", "done"}

\* a request that was assembled after its upload failed
C6_Witness ==
    \E w \in Workers :
        /\ Done(w)
        /\ trace[w] = <<<<"Validate", "ok">>, <<"Resolve", "ok">>,
                        <<"Generate", "ok">>, <<"Encode", "ok">>,
                        <<"Publish", "fail">>, <<"Assemble", "ok">>>>

\* the model name worker w resolves
NameOf(w) == ModelName(req[w].entry, req[w].model_size)
\* worker w is between the start of its load and its return
InFlight(w) == pc[w] \in {"loading", "configure", "generate", "encode",
                          "publish", "cleanup", "return"}

\* C7: requests that resolve the same unloaded variant at the same time cause
\* exactly one load of it and obtain the same handle.
C7_SingleFlight ==
    \A w1, w2 \in Workers :
        (w1 # w2 /\ InFlight(w1) /\ InFlight(w2) /\ NameOf(w1) = NameOf(w2)) =>
            /\ loads[w1] + loads[w2] <= 1
            /\ (model[w1] # 0 /\ model[w2] # 0) => model[w1] = model[w2]

\* C8: once a variant has been loaded in a serving process, resolving it again
\* starts no second load.
C8_NoSecondLoad ==
    [][\A n \in ModelNames :
          loadCount'[n] > loadCount[n] => lastLoad[n] # "ok"]_vars

\* C9: after a load of a variant has failed, the next resolve of that variant
\* attempts the load again instead of returning the stored failure.
C9_FailedLoadIsRetried ==
    [][\A w \in Workers :
          (/\ pc[w] = "resolve"
           /\ pc'[w] # "resolve"
           /\ ~IsNone(NameOf(w))
           /\ lastLoad[NameOf(w)[1]] = "failed") =>
              /\ pc'[w] = "loading"
              /\ loads'[w] = loads[w] + 1
              /\ loadCount'[NameOf(w)[1]] = loadCount[NameOf(w)[1]] + 1]_vars

\* a load in progress for a variant whose previous load failed
C9_Witness ==
    \E w \in Workers :
        /\ pc[w] = "loading"
        /\ lastLoad[NameOf(w)[1]] = "failed"
        /\ loadCount[NameOf(w)[1]] = 2

\* C10: after a request has returned, no temporary file created by it exists.
C10_NoTempFileLeft ==
    \A w \in Workers : Done(w) => temp_path[w] \notin files

\* the parameters the request of worker w applies for its generation
AppliedParams(w) ==
    IF req[w].entry = "production" THEN GenerateKwargs(req[w])
    ELSE RequestParams(req[w])

\* C11: while requests run side by side, the parameters in effect on the
\* handle during a request's generation are the ones that request applied.
C11_OwnParamsInEffect ==
    \A w \in Workers :
        /\ (pc[w] = "generate" /\ req[w].entry # "production") =>
              handles[model[w]].params = RequestParams(req[w])
        /\ ~IsNone(usedParams[w]) => usedParams[w][1] = AppliedParams(w)

\* a request about to generate while another request, which configured its
\* handle with other parameters after it, has generated
C11_Witness ==
    \E w1, w2 \in Workers :
        /\ w1 # w2
        /\ pc[w1] = "generate" /\ pc[w2] = "encode"
        /\ req[w1].entry = "modal" /\ req[w2].entry = "modal"
        /\ req[w1].duration # req[w2].duration
        /\ handles[model[w1]].name = handles[model[w2]].name

\* the words of a message
Words(msg) == {msg[i] : i \in DOMAIN msg}

\* C12: a request whose prompt is empty or longer than 500 characters is
\* rejected with success = false and an error naming the prompt field, and
\* no model is loaded for it.
C12_BadPromptRejected ==
    \A w \in Workers :
        (Started(w) /\ ~ValidPrompt(req[w].prompt)) =>
            /\ loads[w] = 0
            /\ model[w] = 0
            /\ Done(w) => /\ resp[w].success = FALSE
                          /\ "prompt" \in Words(ErrorText(w))

\* the sampling parameters of a request are within the documented bounds:
\* temperature > 0, cfg > 0, top-p in [0, 1], top-k not negative
SamplingInBounds(r) ==
    /\ r.temperature > 0
    /\ r.cfg > 0
    /\ r.top_p >= 0 /\ r.top_p <= 10
    /\ r.top_k >= 0

\* C13: a request with temperature <= 0, cfg <= 0, top-p outside [0, 1] or a
\* negative top-k is rejected by validation before any model is loaded or
\* any parameter is applied to a handle.
C13_BadSamplingRejected ==
    \A w \in Workers :
        (Started(w) /\ ~SamplingInBounds(req[w])) =>
            /\ ~Had(w, "Validate", "ok")
            /\ loads[w] = 0
            /\ model[w] = 0
            /\ IsNone(usedParams[w])

\* C14: for a request that succeeds, the sample rate used to encode the audio
\* and the sample rate reported in the response are the native sample rate
\* of the loaded handle.
C14_SampleRateIsNative ==
    \A w \in Workers :
        /\ pc[w] \in {"publish", "cleanup", "return"} =>
              audio[w][1].sample_rate = handles[model[w]].sample_rate
        /\ (Done(w) /\ resp[w].success = TRUE) =>
              /\ "sample_rate" \in DOMAIN resp[w]
              /\ resp[w].sample_rate = audio[w][1].sample_rate

\* C15: a successful response carries success = true, non-empty audio data,
\* the format "wav", a sample rate, and the duration, prompt and model
\* variant of the request.
C15_SuccessResponseShape ==
    \A w \in Workers :
        (Done(w) /\ resp[w].success = TRUE) =>
            /\ HasAudio(w)
            /\ Len(resp[w].audio_data.samples) > 0
            /\ "format" \in DOMAIN resp[w]
            /\ resp[w].format = "wav"
            /\ "sample_rate" \in DOMAIN resp[w]
            /\ resp[w].duration = req[w].duration
            /\ resp[w].prompt = req[w].prompt
            /\ "model" \in DOMAIN resp[w]
            /\ resp[w].model = req[w].model_size
\* the request of worker w ran into the time limit while generating
TimedOut(w) == Had(w, "Generate", "timeout")

\* C16: a request whose generation exceeded the time limit never ends
\* without a response: once it is over it has answered with success = false
\* and the failure kind GenerationTimeout, and the handle it held is gone so
\* that the next request for the same variant can load and proceed.
C16_TimeoutIsReportedFailure ==
    \A w \in Workers :
        (TimedOut(w) /\ pc[w] \in {"done", "raised", "killed"}) =>
            /\ "success" \in DOMAIN resp[w]
            /\ resp[w].success = FALSE
            /\ "kind" \in DOMAIN resp[w]
            /\ resp[w].kind = "GenerationTimeout"
            /\ model[w] \notin DOMAIN handles

\* the upload of worker w's request was attempted
Uploaded(w) == Had(w, "Publish", "ok") \/ Had(w, "Publish", "fail")

Accepts(e, r) == InvalidFields([r EXCEPT !.entry = e]) = {}

\* C18: the entry points decide alike: a request that passed the validation
\* of the entry point it was sent to passes that of every entry point, and
\* one that was refused is refused by every entry point.
C18_SamePolicyEverywhere ==
    \A w \in Workers :
        /\ Had(w, "Validate", "ok") =>
              \A e \in Entries : Accepts(e, req[w])
        /\ Had(w, "Validate", "fail") =>
              \A e \in Entries : ~Accepts(e, req[w])

\* what the handler of worker w holds in its local variables
Locals(w) ==
    <<req[w], reqNo[w], exc[w], model[w], wav[w], audio[w], temp_path[w],
      audio_url[w], resp[w], usedParams[w], trace[w]>>

\* the handle and the temporary file of worker w are what they were
OwnResourcesKept(w) ==
    /\ model[w] \in DOMAIN handles =>
          /\ model[w] \in DOMAIN handles'
          /\ handles'[model[w]] = handles[model[w]]
    /\ (pc[w] \in {"publish", "cleanup"} /\ temp_path[w] \in files) =>
          temp_path[w] \in files'

\* a step leaves alone every worker other than the one that takes it
StepIsLocal ==
    \A v \in Workers :
        pc'[v] = pc[v] => (Locals(v)' = Locals(v) /\ OwnResourcesKept(v))

\* the response of a finished request is the one its own request, its own
\* audio and its own error give
OutcomeIsOwn ==
    \A w \in Workers :
        Done(w) =>
            resp[w] = IF Had(w, "Assemble", "ok")
                      THEN SuccessResponse(req[w], audio[w], audio_url[w])
                      ELSE ErrorResponse(req[w], exc[w])

\* C19: requests do not influence one another.  No step of one request
\* changes the local state, the handle or the temporary file of another
\* request, and the response of a finished request is computed from its own
\* request and the results of its own stages only, whatever the interleaving.
C19_RequestsDoNotInterfere == []OutcomeIsOwn /\ [][StepIsLocal]_vars

\* a later request has run to its response while an earlier one for the same
\* model is still between encoding and clean-up
C19_Witness ==
    \E w1, w2 \in Workers :
        /\ w1 # w2
        /\ pc[w2] = "cleanup"
        /\ temp_path[w2] \in files
        /\ Done(w1)
        /\ reqNo[w1] > reqNo[w2]
        /\ req[w1].entry = "music_generation"
        /\ resp[w1].success = TRUE
        /\ NameOf(w1) = NameOf(w2)

\* every generation parameter set, each to the value the request carries
FullParams(r) ==
    [duration |-> Some(r.duration), top_k |-> Some(r.top_k),
     top_p |-> Some(r.top_p), temperature |-> Some(r.temperature),
     cfg |-> Some(r.cfg)]

\* C20: every generation call runs with duration, temperature, top-k, top-p
\* and cfg coefficient all set by this call to the values of the current
\* request; none is left unset and none is a constant of the code.
C20_AllParamsFromRequest ==
    \A w \in Workers :
        ~IsNone(usedParams[w]) =>
            /\ DOMAIN usedParams[w][1] = DOMAIN FullParams(req[w])
            /\ usedParams[w][1] = FullParams(req[w])

\* the largest magnitude among encoded samples, each a pair <<numerator,
\* denominator>>, is exactly one
PeakIsOne(samples) ==
    /\ \A i \in DOMAIN samples : Abs(samples[i][1]) <= samples[i][2]
    /\ \E i \in DOMAIN samples : Abs(samples[i][1]) = samples[i][2]

\* C21: whenever a handler has encoded a waveform, no sample was divided by
\* zero; a waveform with a non-zero peak is encoded with every sample divided
\* by that peak, so that the encoded peak is 1; an all-zero waveform is encoded
\* all zero.  This holds for every entry point that encodes audio.
C21_EncodedPeakIsOne ==
    \A w \in Workers :
        ~IsNone(audio[w]) =>
            LET wv == wav[w][1]
                samples == audio[w][1].samples
            IN  /\ DOMAIN samples = DOMAIN wv
                /\ \A i \in DOMAIN samples : samples[i][2] > 0
                /\ IF Peak(wv) > 0
                   THEN /\ PeakIsOne(samples)
                        /\ \A i \in DOMAIN wv :
                              samples[i] = <<wv[i], Peak(wv)>>
                   ELSE \A i \in DOMAIN samples : samples[i][1] = 0

\* C22: the tensor handed to the WAV encoder has exactly the two dimensions
\* (channels, samples) of the raw output (1, channels, samples): the batch
\* dimension is gone, nothing is added, for one channel and for several.
C22_EncoderGetsChannelsBySamples ==
    tensor # <<>> =>
        LET raw == tensor[2]
            arg == tensor[3]
        IN  /\ Len(arg) = 2
            /\ arg = <<raw[2], raw[3]>>

\* the model sizes among those a client may send that entry point e accepts
AcceptedSizes(e) ==
    {x \in SizeInputs \cup ModelSizes :
        Accepts(e, [NoRequest EXCEPT !.model_size = x])}

\* C23: in each service the variants the models endpoint lists, the variants
\* the validator of its generate entry point accepts and the keys of the
\* model map are one set, small, medium and large, and every listed entry
\* has the fields id, name and description.
C23_ListedAcceptedMapped ==
    \A w \in Workers :
        pc[w] = "listed" =>
            LET ms == resp[w].models
                e == req[w].entry
            IN  /\ \A i \in DOMAIN ms :
                      {"id", "name", "description"} \subseteq DOMAIN ms[i]
                /\ {ms[i].id : i \in DOMAIN ms} = ModelSizes
                /\ AcceptedSizes(e) = ModelSizes
                /\ \A x \in ModelSizes : ModelName(e, x) = Some(ModelMap(x))

\* C24: in modal_service.generate the model size of a request that passed
\* validation is a key of the model map, so the lookup never falls back to
\* its default and the model being loaded, and the handle once loaded, is the
\* one of the requested variant.
C24_ModalDefaultNeverTaken ==
    \A w \in Workers :
        (req[w].entry = "modal" /\ Had(w, "Validate", "ok")) =>
            /\ req[w].model_size \in ModelSizes
            /\ NameOf(w) = Some(ModelMap(req[w].model_size))
            /\ model[w] \in DOMAIN handles =>
                  handles[model[w]].name = ModelMap(req[w].model_size)

\* a request to modal_service for a variant other than the default of the
\* lookup is generating on a handle of that variant
C24_Witness ==
    \E w \in Workers :
        /\ req[w].entry = "modal"
        /\ req[w].model_size = "large"
        /\ pc[w] = "generate"
        /\ model[w] \in DOMAIN handles
        /\ handles[model[w]].name = "facebook/musicgen-large"

\* the handler of worker w has been entered and has not ended
Entered(w) == pc[w] \notin {"idle", "done", "raised", "killed", "listed"}

\* a response is written only by the step that ends the handler, and only
\* where there was none
OneResponse ==
    \A w \in Workers :
        resp'[w] # resp[w] =>
            \/ resp[w] = NoResponse /\ pc[w] # "done" /\ pc'[w] = "done"
            \/ resp'[w] = NoResponse /\ pc'[w] = "validate"

====
